---------------------------- MODULE Spec2Model ----------------------------
(***************************************************************************)
(* Mini-backend: an Express server with JWT authentication (protect),      *)
(* role-based authorization (authorize), registration, login and product   *)
(* create/delete handlers over a MongoDB store (users, products).          *)
(*                                                                         *)
(* A request is a record that moves through its route's middleware chain;  *)
(* every handler is cut at its store operations (the only points where     *)
(* another request's store operation can come in between).                 *)
(***************************************************************************)
EXTENDS Integers, Sequences, FiniteSets, TLC

VARIABLES users,      \* the users collection: a sequence, _id = position
          plain,      \* history: the password each user registered with
          products,   \* the products collection: a set of documents
          nextPid,    \* the next product _id the store hands out
          now,        \* the wall clock, in seconds
          req,        \* the requests in flight or just answered, by connection
          wallet      \* the tokens clients hold, each with the user id
                      \* generateToken was called with

vars == <<users, plain, products, nextPid, now, req, wallet>>

---------------------------------------------------------------------------
(* Bounds of the model *)
MaxUsers    == 2     \* registrations the store accepts (SpecRegister)
MaxProducts == 2     \* products ever created
MaxWallet   == 1     \* tokens the clients keep at a time
MaxInFlight == 2     \* concurrent requests (SpecRegister)

(* Program constants *)
ExpiresIn   == 3600  \* JWT_EXPIRES_IN=1h, in seconds
SaltRounds  == 10    \* bcrypt.genSalt(10)
MinLength   == 6     \* password: minlength 6

Secret      == "JWT_SECRET"
Roles       == {"user", "manager", "admin"}

\* The clock is read at the start and just before, at and just after the
\* expiry of a token issued at the start.
Instants    == {0, ExpiresIn - 1, ExpiresIn, ExpiresIn + 1}

---------------------------------------------------------------------------
(* JavaScript values *)
Absent    == ""                       \* a missing or empty body field: falsy
Undefined == [kind |-> "undefined"]   \* a variable never assigned
Null      == [kind |-> "null"]        \* a query that found no document
NoData    == [kind |-> "none"]
Num(n)    == [kind |-> "number", n |-> n]

\* !v for a string field of the body
Missing(v) == v = Absent

\* !v for a token, a document or a number
Falsy(v)   == v \in {Undefined, Null, Num(0)}

Res(status, message, data) ==
    [status |-> status, message |-> message, data |-> data]

---------------------------------------------------------------------------
(* Password Hasher: bcrypt *)
Salts == {"s1", "s2"}

\* bcrypt.hash(plaintext, salt): "$2b$<rounds>$<salt><digest>"
BcryptHash(plaintext, salt) ==
    "$2b$" \o ToString(SaltRounds) \o "$" \o salt \o "." \o plaintext

\* bcrypt.compare(entered, stored): re-hash entered with the salt stored holds
BcryptCompare(entered, stored) ==
    \E s \in Salts : stored = BcryptHash(entered, s)

---------------------------------------------------------------------------
(* Token Issuer / Verifier: jsonwebtoken *)
JwtSign(payload, key) ==
    [kind |-> "jwt", payload |-> payload, sig |-> <<key, payload>>]

\* generateToken signing another id than the one it was given
generateTokenOtherSubject(id, clock) ==
    JwtSign([id |-> id + 1, iat |-> clock, exp |-> clock + ExpiresIn], Secret)

\* generateToken(id): jwt.sign({ id }, JWT_SECRET, { expiresIn })
generateToken(id, clock) ==
    JwtSign([id |-> id, iat |-> clock, exp |-> clock + ExpiresIn], Secret)

Garbage == [kind |-> "garbage"]       \* a string that is no JWT

\* jwt.verify that still accepts a token at the second it expires
JwtVerifyLateExpiry(token, key, clock) ==
    IF Falsy(token)
    THEN [ok |-> FALSE, error |-> "jwt must be provided"]
    ELSE IF token.kind # "jwt"
    THEN [ok |-> FALSE, error |-> "jwt malformed"]
    ELSE IF token.sig # <<key, token.payload>>
    THEN [ok |-> FALSE, error |-> "invalid signature"]
    ELSE IF clock > token.payload.exp
    THEN [ok |-> FALSE, error |-> "jwt expired"]
    ELSE [ok |-> TRUE, decoded |-> token.payload]

\* jwt.verify(token, key): the decoded payload, or the error it throws
JwtVerify(token, key, clock) ==
    IF Falsy(token)
    THEN [ok |-> FALSE, error |-> "jwt must be provided"]
    ELSE IF token.kind # "jwt"
    THEN [ok |-> FALSE, error |-> "jwt malformed"]
    ELSE IF token.sig # <<key, token.payload>>
    THEN [ok |-> FALSE, error |-> "invalid signature"]
    ELSE IF clock >= token.payload.exp
    THEN [ok |-> FALSE, error |-> "jwt expired"]
    ELSE [ok |-> TRUE, decoded |-> token.payload]

---------------------------------------------------------------------------
(* The users collection *)
\* User.findOne({ email }): the first document with that email, or null
FindOneByEmail(us, email) ==
    IF \E i \in 1..Len(us) : us[i].email = email
    THEN us[CHOOSE i \in 1..Len(us) :
                /\ us[i].email = email
                /\ \A j \in 1..Len(us) : us[j].email = email => i <= j]
    ELSE Null

\* User.findById(id)
FindUserById(us, id) ==
    IF id \in 1..Len(us) THEN us[id] ELSE Null

\* .select('-password'): the document without its password field
SelectNoPassword(u) ==
    IF u = Null THEN Null
    ELSE [_id |-> u._id, name |-> u.name, email |-> u.email, role |-> u.role]

---------------------------------------------------------------------------
(* The products collection *)
\* Product.findById(id)
FindProductById(ps, id) ==
    IF \E p \in ps : p._id = id
    THEN CHOOSE p \in ps : p._id = id
    ELSE Null

\* trim: true on the product name
Trim(name) ==
    CASE name = " P " -> "P"
      [] name = " "   -> ""
      [] OTHER        -> name

---------------------------------------------------------------------------
(* Routes: each route's middleware chain *)
Stage(fn, roles) == [fn |-> fn, roles |-> roles]

\* authorize(...roles): the gate closes over its allowed roles
authorize(roles) == Stage("authorize", roles)

protect == Stage("protect", {})

AuthRoutes ==
    [r \in {"POST /auth/register", "POST /auth/login"} |->
        IF r = "POST /auth/register"
        THEN <<Stage("registerUser", {})>>
        ELSE <<Stage("loginUser", {})>>]

\* The product routes with the create route's role gate left out
ProductRoutesCreateUngated ==
    [r \in {"POST /api/products", "DELETE /api/products/:id"} |->
        IF r = "POST /api/products"
        THEN <<protect, Stage("createProduct", {})>>
        ELSE <<protect, authorize({"admin"}), Stage("deleteProduct", {})>>]

ProductRoutes ==
    [r \in {"POST /api/products", "DELETE /api/products/:id"} |->
        IF r = "POST /api/products"
        THEN <<protect, authorize({"admin", "manager"}), Stage("createProduct", {})>>
        ELSE <<protect, authorize({"admin"}), Stage("deleteProduct", {})>>]

UserRoutes ==
    [r \in {"GET /api/users/me", "GET /api/users"} |->
        IF r = "GET /api/users/me"
        THEN <<protect, Stage("getMe", {})>>
        ELSE <<protect, authorize({"admin"}), Stage("getAllUsers", {})>>]

\* module.exports of product.controller.js
ProductControllerExports == {"createProduct", "deleteProduct"}

\* const { createProduct, deleteProduct, getAllProducts } = require(...): a
\* name the controller does not export destructures to undefined
RequireProductController(name) ==
    IF name \in ProductControllerExports THEN name ELSE "undefined"

\* router.get('/', getAllProducts)
ListRoute ==
    [r \in {"GET /api/products"} |->
        <<Stage(RequireProductController("getAllProducts"), {})>>]

\* app.use('/auth', ...); app.use('/api/users', ...); app.use('/api/products', ...)
Chain(route) ==
    IF route \in DOMAIN AuthRoutes THEN AuthRoutes[route]
    ELSE IF route \in DOMAIN UserRoutes THEN UserRoutes[route]
    ELSE IF route \in DOMAIN ListRoute THEN ListRoute[route]
    ELSE ProductRoutes[route]

---------------------------------------------------------------------------
(* Requests *)
Idle == [pc |-> "idle"]

NoHeader == <<>>                      \* no Authorization header

\* The JSON body {}: express.json() parsed it, no field is set
NoBody   == [parsed |-> TRUE, name |-> Absent, email |-> Absent,
             password |-> Absent, role |-> Absent, price |-> Undefined]

\* A request without a body: express.json() skips it and req.body stays
\* undefined
Unparsed == [NoBody EXCEPT !.parsed = FALSE]
NoParams == [id |-> 0]

\* A request entering a chain: nothing sent, req.user not set
NewRequest(route, chain, auth, body, params) ==
    [route  |-> route,  chain |-> chain, stage |-> 1, pc |-> chain[1].fn,
     auth   |-> auth,   body  |-> body,  params |-> params,
     user   |-> Undefined,
     res    |-> <<>>,          \* the res.status().json() calls, in order
     trace  |-> <<>>,          \* the stages that ran, in order
     reads  |-> 0,             \* store reads made for this request
     local  |-> NoData]        \* a handler's local across an await

\* res.status(status).json(...) ending the request
Send(r, stage, responses) ==
    [r EXCEPT !.res = @ \o responses, !.trace = Append(@, stage), !.pc = "done"]

\* next(): hand the request to the chain's next stage
CallNext(r, stage) ==
    [r EXCEPT !.stage = @ + 1, !.pc = r.chain[r.stage + 1].fn,
              !.trace = Append(@, stage)]

\* Express's final handler for an error no stage caught
Uncaught == Res(500, "Internal Server Error", NoData)

---------------------------------------------------------------------------
(* Authentication Gate: protect *)
\* header.startsWith('Bearer'), on the header's first word
StartsWithBearer(header) ==
    /\ header # NoHeader
    /\ header[1] \in {"Bearer", "BearerX"}

\* header.split(' ')[1]
SplitToken(header) ==
    IF Len(header) >= 2 THEN header[2] ELSE Undefined

NoTokenRes     == Res(401, "Not authorized, no token", NoData)
TokenFailedRes == Res(401, "Not authorized, token failed", NoData)

\* protect that reads the payload without verifying it (jwt.decode)
ProtectStepDecodeOnly(r, us, clock) ==
    LET bearer == StartsWithBearer(r.auth)
        token  == IF bearer THEN SplitToken(r.auth) ELSE Undefined
    IN  IF ~bearer
        THEN Send(r, "protect", <<NoTokenRes>>)
        ELSE IF Falsy(token) \/ token.kind # "jwt"
        THEN Send(r, "protect",
                  <<TokenFailedRes>> \o
                  (IF Falsy(token) THEN <<NoTokenRes>> ELSE <<>>))
        ELSE CallNext([r EXCEPT
                         !.user  = SelectNoPassword(FindUserById(us, token.payload.id)),
                         !.reads = @ + 1],
                      "protect")

\* protect that calls next() where it should answer 'no token'
ProtectStepNextWithoutToken(r, us, clock) ==
    LET bearer  == StartsWithBearer(r.auth)
        token   == IF bearer THEN SplitToken(r.auth) ELSE Undefined
        verdict == JwtVerify(token, Secret, clock)
    IN  IF ~bearer
        THEN CallNext(r, "protect")
        ELSE IF ~verdict.ok
        THEN Send(r, "protect",
                  <<TokenFailedRes>> \o
                  (IF Falsy(token) THEN <<NoTokenRes>> ELSE <<>>))
        ELSE CallNext([r EXCEPT
                         !.user  = SelectNoPassword(FindUserById(us, verdict.decoded.id)),
                         !.reads = @ + 1],
                      "protect")

\* protect that answers 401 when the token's user is not in the store
ProtectStepGuardsMissingUser(r, us, clock) ==
    LET bearer  == StartsWithBearer(r.auth)
        token   == IF bearer THEN SplitToken(r.auth) ELSE Undefined
        verdict == JwtVerify(token, Secret, clock)
    IN  IF ~bearer
        THEN Send(r, "protect", <<NoTokenRes>>)
        ELSE IF ~verdict.ok
        THEN Send(r, "protect",
                  <<TokenFailedRes>> \o
                  (IF Falsy(token) THEN <<NoTokenRes>> ELSE <<>>))
        ELSE IF FindUserById(us, verdict.decoded.id) = Null
        THEN Send([r EXCEPT !.reads = @ + 1], "protect",
                  <<Res(401, "Not authorized, user not found", NoData)>>)
        ELSE CallNext([r EXCEPT
                         !.user  = SelectNoPassword(FindUserById(us, verdict.decoded.id)),
                         !.reads = @ + 1],
                      "protect")

\* What protect does with a request: the request after it
ProtectStep(r, us, clock) ==
    LET bearer  == StartsWithBearer(r.auth)
        token   == IF bearer THEN SplitToken(r.auth) ELSE Undefined
        verdict == JwtVerify(token, Secret, clock)
    IN  IF ~bearer
        THEN Send(r, "protect", <<NoTokenRes>>)
        ELSE IF ~verdict.ok
        THEN \* the catch block answers; then `if (!token)` answers again
             Send(r, "protect",
                  <<TokenFailedRes>> \o
                  (IF Falsy(token) THEN <<NoTokenRes>> ELSE <<>>))
        ELSE CallNext([r EXCEPT
                         !.user  = SelectNoPassword(FindUserById(us, verdict.decoded.id)),
                         !.reads = @ + 1],
                      "protect")

Protect(s) ==
    /\ req[s].pc = "protect"
    /\ req' = [req EXCEPT ![s] = ProtectStep(req[s], users, now)]
    /\ UNCHANGED <<users, plain, products, nextPid, now, wallet>>

---------------------------------------------------------------------------
(* Authorization Gate: authorize(...roles) *)
ForbiddenRes(role) ==
    Res(403, "User role " \o role \o " is not authorized to access this route",
        NoData)

\* authorize that lets every resolved identity through
AuthorizeStepNoCheck(r, roles) ==
    IF Falsy(r.user)
    THEN Send(r, "authorize", <<Uncaught>>)
    ELSE CallNext(r, "authorize")

\* The middleware authorize(...roles) returns, applied to a request
AuthorizeStep(r, roles) ==
    IF Falsy(r.user)
    THEN Send(r, "authorize", <<Uncaught>>)      \* req.user.role throws
    ELSE IF r.user.role \notin roles
    THEN Send(r, "authorize", <<ForbiddenRes(r.user.role)>>)
    ELSE CallNext(r, "authorize")

Authorize(s) ==
    /\ req[s].pc = "authorize"
    /\ req' = [req EXCEPT ![s] = AuthorizeStep(req[s], req[s].chain[req[s].stage].roles)]
    /\ UNCHANGED <<users, plain, products, nextPid, now, wallet>>

---------------------------------------------------------------------------
(* Product controller *)
ServerError == Res(500, "Server Error", NoData)

ProductView(p) ==
    [kind |-> "product", id |-> p._id, name |-> p.name, price |-> p.price,
     createdBy |-> p.createdBy]

\* productSchema's validation of { name, price, createdBy }
ValidProduct(name, price, createdBy) ==
    /\ Trim(name) # ""
    /\ price.kind = "number"
    /\ createdBy # Null

\* A document that records the first user as its creator, whoever asked
NewProductOwnedByFirstUser(r, id) ==
    [_id |-> id, name |-> Trim(r.body.name), price |-> r.body.price.n,
     createdBy |-> 1]

\* The document of Product.create({ name, price, createdBy: req.user.id })
NewProduct(r, id) ==
    [_id |-> id, name |-> Trim(r.body.name), price |-> r.body.price.n,
     createdBy |-> r.user._id]

\* createProduct: validation, Product.create, the 201
CreateProduct(s) ==
    /\ req[s].pc = "createProduct"
    /\ LET r     == req[s]
           name  == r.body.name
           price == r.body.price
       IN  IF ~r.body.parsed
           THEN \* destructuring undefined throws into the catch block
                /\ req' = [req EXCEPT ![s] = Send(r, "createProduct", <<ServerError>>)]
                /\ UNCHANGED <<products, nextPid>>
           ELSE IF Missing(name) \/ Falsy(price)
           THEN /\ req' = [req EXCEPT ![s] =
                             Send(r, "createProduct",
                                  <<Res(400, "Please add name and price", NoData)>>)]
                /\ UNCHANGED <<products, nextPid>>
           ELSE IF Falsy(r.user) \/ ~ValidProduct(name, price, r.user)
           THEN \* req.user.id or the schema throws into the catch block
                /\ req' = [req EXCEPT ![s] = Send(r, "createProduct", <<ServerError>>)]
                /\ UNCHANGED <<products, nextPid>>
           ELSE LET product == NewProduct(r, nextPid)
                IN  /\ nextPid <= MaxProducts
                    /\ products' = products \cup {product}
                    /\ nextPid' = nextPid + 1
                    /\ req' = [req EXCEPT ![s] =
                                 Send(r, "createProduct",
                                      <<Res(201, "Product created successfully",
                                            ProductView(product))>>)]
    /\ UNCHANGED <<users, plain, now, wallet>>

\* A path segment such as 'abc', which is no ObjectId
MalformedId == 0

\* The cast of a query's _id to ObjectId succeeds
IsObjectId(id) == id # MalformedId

\* deleteProduct up to its first await: Product.findById(req.params.id)
DeleteFind(s) ==
    /\ req[s].pc = "deleteProduct"
    /\ LET r       == req[s]
           product == FindProductById(products, r.params.id)
       IN  req' = [req EXCEPT ![s] =
                IF ~IsObjectId(r.params.id)
                THEN \* findById rejects with a CastError: the catch block
                     Send(r, "deleteProduct", <<ServerError>>)
                ELSE IF product = Null
                THEN Send([r EXCEPT !.reads = @ + 1], "deleteProduct",
                          <<Res(404, "Product not found", NoData)>>)
                ELSE [r EXCEPT !.reads = @ + 1, !.local = product,
                               !.trace = Append(@, "deleteProduct"),
                               !.pc = "deleteProduct:deleteOne"]]
    /\ UNCHANGED <<users, plain, products, nextPid, now, wallet>>

\* deleteProduct from product.deleteOne() on: the document goes if it is there
DeleteRemove(s) ==
    /\ req[s].pc = "deleteProduct:deleteOne"
    /\ LET r == req[s]
       IN  /\ products' = {p \in products : p._id # r.local._id}
           /\ req' = [req EXCEPT ![s] =
                        [r EXCEPT !.pc = "done",
                                  !.res = Append(@,
                                      Res(200, "Product deleted successfully",
                                          ProductView(r.local)))]]
    /\ UNCHANGED <<users, plain, nextPid, now, wallet>>

\* router.get('/', undefined): Express refuses a handler that is no function
\* ("argument handler must be a function") while product.routes.js loads, so
\* app.js never finishes loading and the request is not answered
NoHandler(s) ==
    /\ req[s].pc = "undefined"
    /\ req' = [req EXCEPT ![s] = [req[s] EXCEPT !.pc = "done"]]
    /\ UNCHANGED <<users, plain, products, nextPid, now, wallet>>

---------------------------------------------------------------------------
(* User controller *)
UserView(u) ==
    [kind |-> "user", id |-> u._id, name |-> u.name, email |-> u.email,
     role |-> u.role]

\* getMe: the resolved identity's public fields
GetMe(s) ==
    /\ req[s].pc = "getMe"
    /\ LET r == req[s]
       IN  req' = [req EXCEPT ![s] =
                IF Falsy(r.user)
                THEN Send(r, "getMe", <<ServerError>>)
                ELSE Send(r, "getMe",
                          <<Res(200, "Profile fetched successfully", UserView(r.user))>>)]
    /\ UNCHANGED <<users, plain, products, nextPid, now, wallet>>

\* getAllUsers: every user, with the count
GetAllUsers(s) ==
    /\ req[s].pc = "getAllUsers"
    /\ LET r == req[s]
       IN  req' = [req EXCEPT ![s] =
                Send([r EXCEPT !.reads = @ + 1], "getAllUsers",
                     <<Res(200, "Users fetched successfully",
                           [kind  |-> "users", count |-> Len(users),
                            users |-> [i \in 1..Len(users) |-> UserView(users[i])]])>>)]
    /\ UNCHANGED <<users, plain, products, nextPid, now, wallet>>

---------------------------------------------------------------------------
(* User model: schema validation, the pre-save hook, the unique index *)
\* The e-mail pattern of the schema, over the addresses clients send
WellFormedEmails == {"a@x.com", "b@x.com", "admin@x.com", "manager@x.com",
                     "user@x.com", "nobody@x.com"}

\* The schema without the enum on role
ValidUserAnyRole(doc) ==
    /\ doc.name # ""
    /\ doc.email \in WellFormedEmails
    /\ doc.password # ""
    /\ Len(doc.password) >= MinLength

\* userSchema's validation of a new document
ValidUser(doc) ==
    /\ doc.name # ""
    /\ doc.email \in WellFormedEmails
    /\ doc.password # ""
    /\ Len(doc.password) >= MinLength
    /\ doc.role \in Roles

\* A pre-save hook that stores the password as it came
PreSaveNoHash(doc, salt) == doc

\* userSchema.pre('save') on a document whose password is modified
PreSave(doc, salt) ==
    [doc EXCEPT !.password = BcryptHash(@, salt)]

\* userSchema.pre('save') on a document whose password is not modified:
\* the hook calls next() and, having no return, goes on to hash
\* this.password, the stored hash, a second time while the save it has
\* released proceeds. The documents the save can write: the one it was
\* given, or the one whose password the hook has overwritten.
PreSaveUnmodified(doc, salt) ==
    {doc, [doc EXCEPT !.password = BcryptHash(@, salt)]}

\* The collection without the unique index
DuplicateKeyNoIndex(us, doc) == FALSE

\* email: unique: true. The insert is refused when the e-mail is indexed already
DuplicateKey(us, doc) ==
    \E i \in 1..Len(us) : us[i].email = doc.email

\* matchPassword comparing the strings themselves
matchPasswordPlain(user, enteredPassword) ==
    enteredPassword = user.password

\* userSchema.methods.matchPassword
matchPassword(user, enteredPassword) ==
    BcryptCompare(enteredPassword, user.password)

---------------------------------------------------------------------------
(* Auth controller *)
\* registerUser up to its first await: validation, User.findOne({ email })
RegisterFind(s) ==
    /\ req[s].pc = "registerUser"
    /\ LET r == req[s]
           b == r.body
       IN  req' = [req EXCEPT ![s] =
                IF ~b.parsed
                THEN \* destructuring undefined throws ahead of the try block
                     Send(r, "registerUser", <<Uncaught>>)
                ELSE IF Missing(b.name) \/ Missing(b.email) \/ Missing(b.password)
                THEN Send(r, "registerUser",
                          <<Res(400, "Please add all fields", NoData)>>)
                ELSE IF FindOneByEmail(users, b.email) # Null
                THEN Send([r EXCEPT !.reads = @ + 1], "registerUser",
                          <<Res(409, "User already exists", NoData)>>)
                ELSE [r EXCEPT !.reads = @ + 1,
                               !.trace = Append(@, "registerUser"),
                               !.pc = "registerUser:create"]]
    /\ UNCHANGED <<users, plain, products, nextPid, now, wallet>>

\* registerUser from User.create on: validate, hash, insert, answer
RegisterCreate(s) ==
    /\ req[s].pc = "registerUser:create"
    /\ LET r   == req[s]
           b   == r.body
           doc == [_id |-> Len(users) + 1, name |-> b.name, email |-> b.email,
                   password |-> b.password,
                   role |-> IF Missing(b.role) THEN "user" ELSE b.role]
       IN  IF ~ValidUser(doc) \/ DuplicateKey(users, doc)
           THEN \* ValidationError or E11000 lands in the catch block
                /\ req' = [req EXCEPT ![s] =
                             [r EXCEPT !.pc = "done", !.res = Append(@, ServerError)]]
                /\ UNCHANGED <<users, plain>>
           ELSE /\ Len(users) < MaxUsers
                /\ \E salt \in Salts :
                       users' = Append(users, PreSave(doc, salt))
                /\ plain' = Append(plain, b.password)
                /\ req' = [req EXCEPT ![s] =
                             [r EXCEPT !.pc = "done",
                                       !.res = Append(@,
                                           Res(201, "User registered successfully",
                                               UserView(doc)))]]
    /\ UNCHANGED <<products, nextPid, now, wallet>>

\* loginUser telling an unknown e-mail apart from a wrong password
LoginStepTellsUnknown(r, us, clock) ==
    LET b    == r.body
        user == FindOneByEmail(us, b.email)
    IN  IF ~b.parsed
        THEN \* destructuring undefined throws ahead of the try block
             Send(r, "loginUser", <<Uncaught>>)
        ELSE IF Missing(b.email) \/ Missing(b.password)
        THEN Send(r, "loginUser",
                  <<Res(400, "Please add email and password", NoData)>>)
        ELSE IF user = Null
        THEN Send([r EXCEPT !.reads = @ + 1], "loginUser",
                  <<Res(404, "User not found", NoData)>>)
        ELSE IF matchPassword(user, b.password)
        THEN Send([r EXCEPT !.reads = @ + 1], "loginUser",
                  <<Res(200, "Login successful",
                        [kind |-> "token", token |-> generateToken(user._id, clock)])>>)
        ELSE Send([r EXCEPT !.reads = @ + 1], "loginUser",
                  <<Res(401, "Invalid credentials", NoData)>>)

\* loginUser: validation, User.findOne with the password, matchPassword, the token
LoginStep(r, us, clock) ==
    LET b    == r.body
        user == FindOneByEmail(us, b.email)
    IN  IF ~b.parsed
        THEN \* destructuring undefined throws ahead of the try block
             Send(r, "loginUser", <<Uncaught>>)
        ELSE IF Missing(b.email) \/ Missing(b.password)
        THEN Send(r, "loginUser",
                  <<Res(400, "Please add email and password", NoData)>>)
        ELSE IF user # Null /\ matchPassword(user, b.password)
        THEN Send([r EXCEPT !.reads = @ + 1], "loginUser",
                  <<Res(200, "Login successful",
                        [kind |-> "token", token |-> generateToken(user._id, clock)])>>)
        ELSE Send([r EXCEPT !.reads = @ + 1], "loginUser",
                  <<Res(401, "Invalid credentials", NoData)>>)

Login(s) ==
    /\ req[s].pc = "loginUser"
    /\ req' = [req EXCEPT ![s] = LoginStep(req[s], users, now)]
    /\ UNCHANGED <<users, plain, products, nextPid, now, wallet>>

---------------------------------------------------------------------------
(* The environment: the clock and the clients *)
Tick ==
    /\ \E t \in Instants :
          /\ t > now
          /\ now' = t
    /\ UNCHANGED <<users, plain, products, nextPid, req, wallet>>

\* A client keeps the token of a login response, dropping older ones if it must
Keep(s) ==
    /\ req[s].pc = "done"
    /\ req[s].res # <<>>
    /\ req[s].res[1].data.kind = "token"
    /\ LET entry == [token  |-> req[s].res[1].data.token,
                     userId |-> FindOneByEmail(users, req[s].body.email)._id]
       IN  /\ entry \notin wallet
           /\ wallet' \in {w \in SUBSET (wallet \cup {entry}) :
                              entry \in w /\ Cardinality(w) <= MaxWallet}
    /\ UNCHANGED <<users, plain, products, nextPid, now, req>>

Held(w) == {e.token : e \in w}

\* Tokens a client can make from those it holds without knowing the secret
TamperedTokens(w) ==
    {JwtSign(t.payload, "guessed-secret") : t \in Held(w)}
        \cup {[t EXCEPT !.payload.exp = @ + ExpiresIn] : t \in Held(w)}

\* The Authorization headers clients send, split at the spaces
ClientHeaders(w) ==
    {NoHeader, <<"Basic", Garbage>>, <<"Bearer">>, <<"Bearer", Garbage>>}
        \cup {<<"Bearer", t>> : t \in Held(w) \cup TamperedTokens(w)}
        \cup {<<"BearerX", t>> : t \in Held(w)}

LoginRequests(emails, passwords) ==
    {NewRequest("POST /auth/login", Chain("POST /auth/login"), NoHeader,
                [NoBody EXCEPT !.email = e, !.password = p], NoParams) :
        e \in emails \cup {Absent}, p \in passwords \cup {Absent}}
        \cup {NewRequest("POST /auth/login", Chain("POST /auth/login"), NoHeader,
                          Unparsed, NoParams)}

RegisterRequests(names, emails, passwords, roles) ==
    {NewRequest("POST /auth/register", Chain("POST /auth/register"), NoHeader,
                [NoBody EXCEPT !.name = n, !.email = e, !.password = p, !.role = ro],
                NoParams) :
        n \in names \cup {Absent}, e \in emails \cup {Absent},
        p \in passwords \cup {Absent}, ro \in roles \cup {Absent}}
        \cup {NewRequest("POST /auth/register", Chain("POST /auth/register"),
                          NoHeader, Unparsed, NoParams)}

CreateRequests(w) ==
    {NewRequest("POST /api/products", Chain("POST /api/products"), h,
                [NoBody EXCEPT !.name = n, !.price = p], NoParams) :
        h \in ClientHeaders(w), n \in {Absent, "P", " P "},
        p \in {Undefined, Num(0), Num(10)}}
        \cup {NewRequest("POST /api/products", Chain("POST /api/products"), h,
                          Unparsed, NoParams) : h \in ClientHeaders(w)}

DeleteRequests(w) ==
    {NewRequest("DELETE /api/products/:id", Chain("DELETE /api/products/:id"), h,
                NoBody, [id |-> i]) :
        h \in ClientHeaders(w), i \in (1..MaxProducts) \cup {MalformedId}}

UserRequests(w) ==
    {NewRequest(route, Chain(route), h, NoBody, NoParams) :
        route \in DOMAIN UserRoutes, h \in ClientHeaders(w)}

\* A request arrives on a connection that has none in flight
Arrive(s, r) ==
    /\ req[s] = Idle
    /\ req' = [req EXCEPT ![s] = r]
    /\ UNCHANGED <<users, plain, products, nextPid, now, wallet>>

\* The answered request leaves its connection
Close(s) ==
    /\ req[s].pc = "done"
    /\ req' = [req EXCEPT ![s] = Idle]
    /\ UNCHANGED <<users, plain, products, nextPid, now, wallet>>

---------------------------------------------------------------------------
(* Spec: the server over a database that holds one user of each role,      *)
(* registered earlier; one request at a time.                              *)
SeedUser(id, name, email, plaintext, salt, role) ==
    PreSave([_id |-> id, name |-> name, email |-> email, password |-> plaintext,
             role |-> role], salt)

SeedUsers ==
    << SeedUser(1, "A", "admin@x.com", "secret1", "s1", "admin"),
       SeedUser(2, "M", "manager@x.com", "secret1", "s2", "manager"),
       SeedUser(3, "U", "user@x.com", "secret1", "s1", "user") >>

Init ==
    /\ users = SeedUsers
    /\ plain = <<"secret1", "secret1", "secret1">>
    /\ products = {}
    /\ nextPid = 1
    /\ now = 0
    /\ req = [s \in {1} |-> Idle]
    /\ wallet = {}

Requests ==
    LoginRequests({"admin@x.com", "manager@x.com", "user@x.com", "nobody@x.com"},
                  {"secret1", "secret2"})
        \cup CreateRequests(wallet) \cup DeleteRequests(wallet)
        \cup UserRequests(wallet)

Next ==
    \/ \E s \in DOMAIN req : req[s] = Idle /\ \E r \in Requests : Arrive(s, r)
    \/ \E s \in DOMAIN req : Protect(s)
    \/ \E s \in DOMAIN req : Authorize(s)
    \/ \E s \in DOMAIN req : CreateProduct(s)
    \/ \E s \in DOMAIN req : DeleteFind(s)
    \/ \E s \in DOMAIN req : DeleteRemove(s)
    \/ \E s \in DOMAIN req : GetMe(s)
    \/ \E s \in DOMAIN req : GetAllUsers(s)
    \/ \E s \in DOMAIN req : Login(s)
    \/ \E s \in DOMAIN req : Keep(s)
    \/ \E s \in DOMAIN req : Close(s)
    \/ Tick

Spec == Init /\ [][Next]_vars

---------------------------------------------------------------------------
(* SpecRegister: registration and login from an empty database, one        *)
(* request at a time.                                                      *)
EmptyStore ==
    /\ users = <<>>
    /\ plain = <<>>
    /\ products = {}
    /\ nextPid = 1
    /\ now = 0
    /\ wallet = {}

InitRegister ==
    /\ EmptyStore
    /\ req = [s \in {1} |-> Idle]

RequestsRegister ==
    RegisterRequests({"A"}, {"a@x.com", "b@x.com", "a.x.com"}, {"secret1", "secret2", "pw"},
                     Roles \cup {"guest"})
        \cup LoginRequests({"a@x.com", "b@x.com"}, {"secret1", "secret2"})

NextRegister ==
    \/ \E s \in DOMAIN req : req[s] = Idle /\ \E r \in RequestsRegister : Arrive(s, r)
    \/ \E s \in DOMAIN req : RegisterFind(s)
    \/ \E s \in DOMAIN req : RegisterCreate(s)
    \/ \E s \in DOMAIN req : Login(s)
    \/ \E s \in DOMAIN req : Close(s)

SpecRegister == InitRegister /\ [][NextRegister]_vars

---------------------------------------------------------------------------
(* SpecRace: registrations in flight together, from an empty database.     *)
InitRace ==
    /\ EmptyStore
    /\ req = [s \in 1..MaxInFlight |-> Idle]

RequestsRace ==
    {r \in RegisterRequests({"A"}, {"a@x.com", "b@x.com"}, {"secret1"}, {"admin"}) :
        ~Missing(r.body.name) /\ ~Missing(r.body.email) /\ ~Missing(r.body.password)}

NextRace ==
    \/ \E s \in DOMAIN req : req[s] = Idle /\ \E r \in RequestsRace : Arrive(s, r)
    \/ \E s \in DOMAIN req : RegisterFind(s)
    \/ \E s \in DOMAIN req : RegisterCreate(s)
    \/ \E s \in DOMAIN req : Close(s)

SpecRace == InitRace /\ [][NextRace]_vars

---------------------------------------------------------------------------
(* SpecGate: authorize(...roles) built with every set of roles, mounted    *)
(* behind protect and in front of getMe, over the seeded database.         *)
GateRequests(w) ==
    {NewRequest("authorize(...roles)",
                <<protect, authorize(roles), Stage("getMe", {})>>, h,
                [NoBody EXCEPT !.name = n], [id |-> i]) :
        roles \in SUBSET Roles, h \in ClientHeaders(w),
        n \in {Absent, "P"}, i \in {0, 1}}

RequestsGate ==
    LoginRequests({"admin@x.com", "manager@x.com", "user@x.com"}, {"secret1"})
        \cup GateRequests(wallet)

NextGate ==
    \/ \E s \in DOMAIN req : req[s] = Idle /\ \E r \in RequestsGate : Arrive(s, r)
    \/ \E s \in DOMAIN req : Protect(s)
    \/ \E s \in DOMAIN req : Authorize(s)
    \/ \E s \in DOMAIN req : GetMe(s)
    \/ \E s \in DOMAIN req : Login(s)
    \/ \E s \in DOMAIN req : Keep(s)
    \/ \E s \in DOMAIN req : Close(s)

SpecGate == Init /\ [][NextGate]_vars

---------------------------------------------------------------------------
(* SpecList: the public product list, over every store the create and      *)
(* delete handlers can leave behind.                                       *)
ProductDocs ==
    {[_id |-> i, name |-> "P", price |-> p, createdBy |-> u] :
        i \in 1..MaxProducts, p \in {10, 20}, u \in {1, 2}}

StoredProducts ==
    {ps \in SUBSET ProductDocs : \A p, q \in ps : p._id = q._id => p = q}

InitList ==
    /\ users = SeedUsers
    /\ plain = <<"secret1", "secret1", "secret1">>
    /\ products \in StoredProducts
    /\ nextPid = MaxProducts + 1
    /\ now = 0
    /\ req = [s \in {1} |-> Idle]
    /\ wallet = {}

ListRequests(w) ==
    {NewRequest("GET /api/products", Chain("GET /api/products"), h, NoBody, NoParams) :
        h \in ClientHeaders(w)}

NextList ==
    \/ \E s \in DOMAIN req : req[s] = Idle /\ \E r \in ListRequests(wallet) : Arrive(s, r)
    \/ \E s \in DOMAIN req : NoHandler(s)
    \/ \E s \in DOMAIN req : Close(s)

SpecList == InitList /\ [][NextList]_vars

---------------------------------------------------------------------------
(* SpecSave: stored users are saved again with another name and their      *)
(* password untouched, between logins.                                     *)
NewName == "Z"

\* user.name = NewName; user.save(): the pre-save hook runs on a document
\* whose password is not modified; the save is rejected (nothing written)
\* when the hook's next is no function, else it writes what the hook left
SaveAgain(i) ==
    /\ users[i].name # NewName
    /\ \E salt \in Salts :
          \E doc \in PreSaveUnmodified([users[i] EXCEPT !.name = NewName], salt) :
              users' \in {users, [users EXCEPT ![i] = doc]}
    /\ UNCHANGED <<plain, products, nextPid, now, req, wallet>>

RequestsSave ==
    LoginRequests({"admin@x.com", "user@x.com"}, {"secret1"})

NextSave ==
    \/ \E s \in DOMAIN req : req[s] = Idle /\ \E r \in RequestsSave : Arrive(s, r)
    \/ \E s \in DOMAIN req : Login(s)
    \/ \E s \in DOMAIN req : Close(s)
    \/ \E i \in 1..Len(users) : SaveAgain(i)

SpecSave == Init /\ [][NextSave]_vars

---------------------------------------------------------------------------
(* SpecOrphan: users are removed from the collection, in the database,     *)
(* while clients still hold tokens issued for them.                        *)
\* The newest user document is deleted in the database; a login just
\* answered is first taken by its client
RemoveUser ==
    /\ users # <<>>
    /\ \A s \in DOMAIN req :
          (req[s] # Idle /\ req[s].pc = "done") => req[s].route # "POST /auth/login"
    /\ users' = SubSeq(users, 1, Len(users) - 1)
    /\ plain' = SubSeq(plain, 1, Len(plain) - 1)
    /\ UNCHANGED <<products, nextPid, now, req, wallet>>

\* Requests with the tokens the clients hold, on the routes that have both
\* gates
OrphanRequests(w) ==
    {NewRequest(route, Chain(route), <<"Bearer", t>>,
                [NoBody EXCEPT !.name = "P", !.price = Num(10)], [id |-> i]) :
        route \in {"POST /api/products", "DELETE /api/products/:id", "GET /api/users"},
        t \in Held(w), i \in 1..MaxProducts}

RequestsOrphan ==
    LoginRequests({"admin@x.com", "manager@x.com", "user@x.com"}, {"secret1"})
        \cup OrphanRequests(wallet)

NextOrphan ==
    \/ \E s \in DOMAIN req : req[s] = Idle /\ \E r \in RequestsOrphan : Arrive(s, r)
    \/ \E s \in DOMAIN req : Protect(s)
    \/ \E s \in DOMAIN req : Authorize(s)
    \/ \E s \in DOMAIN req : CreateProduct(s)
    \/ \E s \in DOMAIN req : DeleteFind(s)
    \/ \E s \in DOMAIN req : DeleteRemove(s)
    \/ \E s \in DOMAIN req : GetAllUsers(s)
    \/ \E s \in DOMAIN req : Login(s)
    \/ \E s \in DOMAIN req : Keep(s)
    \/ \E s \in DOMAIN req : Close(s)
    \/ RemoveUser

SpecOrphan == Init /\ [][NextOrphan]_vars

---------------------------------------------------------------------------
(* SpecDeleteRace: deletes by an admin in flight together, over every      *)
(* store the create and delete handlers can leave behind.                  *)
\* The admin logged in at the start and keeps the token
AdminWallet == {[token |-> generateToken(1, 0), userId |-> 1]}

InitDeleteRace ==
    /\ users = SeedUsers
    /\ plain = <<"secret1", "secret1", "secret1">>
    /\ products \in StoredProducts
    /\ nextPid = MaxProducts + 1
    /\ now = 0
    /\ req = [s \in 1..MaxInFlight |-> Idle]
    /\ wallet = AdminWallet

RequestsDeleteRace ==
    {NewRequest("DELETE /api/products/:id", Chain("DELETE /api/products/:id"),
                <<"Bearer", t>>, NoBody, [id |-> i]) :
        t \in Held(AdminWallet), i \in 1..MaxProducts}

NextDeleteRace ==
    \/ \E s \in DOMAIN req : req[s] = Idle /\ \E r \in RequestsDeleteRace : Arrive(s, r)
    \/ \E s \in DOMAIN req : Protect(s)
    \/ \E s \in DOMAIN req : Authorize(s)
    \/ \E s \in DOMAIN req : DeleteFind(s)
    \/ \E s \in DOMAIN req : DeleteRemove(s)
    \/ \E s \in DOMAIN req : Close(s)

SpecDeleteRace == InitDeleteRace /\ [][NextDeleteRace]_vars

---------------------------------------------------------------------------
(* SpecSession: from an empty database, clients register, log in, keep     *)
(* the tokens and use them to create and delete products while the clock   *)
(* runs; one request at a time.                                            *)
SessionRequests(w) ==
    {NewRequest(route, Chain(route), <<"Bearer", t>>,
                [NoBody EXCEPT !.name = "P", !.price = Num(10)], [id |-> i]) :
        route \in DOMAIN ProductRoutes, t \in Held(w), i \in 1..MaxProducts}

RequestsSession ==
    RequestsRace
        \cup LoginRequests({"a@x.com", "b@x.com"}, {"secret1"})
        \cup SessionRequests(wallet)

NextSession ==
    \/ \E s \in DOMAIN req : req[s] = Idle /\ \E r \in RequestsSession : Arrive(s, r)
    \/ \E s \in DOMAIN req : RegisterFind(s)
    \/ \E s \in DOMAIN req : RegisterCreate(s)
    \/ \E s \in DOMAIN req : Login(s)
    \/ \E s \in DOMAIN req : Keep(s)
    \/ \E s \in DOMAIN req : Protect(s)
    \/ \E s \in DOMAIN req : Authorize(s)
    \/ \E s \in DOMAIN req : CreateProduct(s)
    \/ \E s \in DOMAIN req : DeleteFind(s)
    \/ \E s \in DOMAIN req : DeleteRemove(s)
    \/ \E s \in DOMAIN req : Close(s)
    \/ Tick

SpecSession == InitRegister /\ [][NextSession]_vars

---------------------------------------------------------------------------
(* Properties *)
InFlightOrDone(r) == r # Idle

\* fn's body ran for the request
Ran(r, fn) ==
    /\ InFlightOrDone(r)
    /\ \E i \in 1..Len(r.trace) : r.trace[i] = fn

\* The request went through an authorize gate with an identity resolved
PassedThroughGate(r) ==
    /\ Ran(r, "authorize")
    /\ ~Falsy(r.user)

\* C1: for every set of allowed roles and every request with a resolved
\* identity, authorize forwards the request to the next stage exactly when
\* the identity's role is in the set, and otherwise answers 403 with a
\* message naming the role, whatever else the request carries.
C1_AuthorizeForwardsIffRoleAllowed ==
    \A s \in DOMAIN req :
        LET r == req[s]
        IN  PassedThroughGate(r) =>
                LET allowed == r.chain[2].roles
                IN  /\ (r.stage > 2) <=> (r.user.role \in allowed)
                    /\ r.user.role \notin allowed =>
                          /\ r.pc = "done"
                          /\ r.trace = <<"protect", "authorize">>
                          /\ r.res = <<Res(403, "User role " \o r.user.role
                                              \o " is not authorized to access this route",
                                            NoData)>>

\* A gate built with {admin, manager} has denied a user
C1_Witness ==
    \E s \in DOMAIN req :
        /\ PassedThroughGate(req[s])
        /\ req[s].chain[2].roles = {"admin", "manager"}
        /\ req[s].user.role = "user"
        /\ req[s].body.name = "P"
        /\ req[s].res[1].status = 403

\* C2: the route table enforces the role matrix: the createProduct body runs
\* only for a resolved identity with role admin or manager, the deleteProduct
\* and getAllUsers bodies only for role admin, and getMe runs for every
\* resolved identity whatever its role.
C2_RouteTableEnforcesRoleMatrix ==
    \A s \in DOMAIN req :
        LET r == req[s]
        IN  /\ Ran(r, "createProduct") =>
                  ~Falsy(r.user) /\ r.user.role \in {"admin", "manager"}
            /\ Ran(r, "deleteProduct") =>
                  ~Falsy(r.user) /\ r.user.role = "admin"
            /\ Ran(r, "getAllUsers") =>
                  ~Falsy(r.user) /\ r.user.role = "admin"
            /\ (/\ InFlightOrDone(r)
                /\ r.route = "GET /api/users/me"
                /\ Ran(r, "protect")
                /\ ~Falsy(r.user)) =>
                  \/ r.pc = "getMe"
                  \/ /\ r.pc = "done"
                     /\ r.trace = <<"protect", "getMe">>

\* A manager has created a product
C2_Witness ==
    \E s \in DOMAIN req :
        /\ Ran(req[s], "createProduct")
        /\ req[s].user.role = "manager"
        /\ req[s].res[1].status = 201

\* A gated route: its chain starts with protect
Gated(r) == InFlightOrDone(r) /\ r.chain[1].fn = "protect"

\* The header has the form `Bearer <token>`
BearerAndToken(header) ==
    /\ Len(header) = 2
    /\ header[1] = "Bearer"
    /\ header[2] # Undefined

\* C3: on every gated route a request whose Authorization header is absent
\* or not of the form `Bearer <token>` is answered 401 'no token' (once), and
\* neither authorize nor the handler runs for it.
C3_NoBearerTokenAnswered401NoToken ==
    \A s \in DOMAIN req :
        LET r == req[s]
        IN  (Gated(r) /\ ~BearerAndToken(r.auth) /\ r.pc # "protect") =>
                /\ r.pc = "done"
                /\ r.trace = <<"protect">>
                /\ r.res = <<Res(401, "Not authorized, no token", NoData)>>

\* The token fails verification at this instant: not a JWT, not signed with
\* the server's secret, or expired
FailsVerification(token, clock) ==
    \/ token.kind # "jwt"
    \/ token.sig # <<Secret, token.payload>>
    \/ clock >= token.payload.exp

\* C4: on every gated route, when protect handles `Bearer <token>` and the
\* token fails verification, the request is answered 401 'token failed' and
\* ends there: no later stage runs and the store is not read.
C4_FailedTokenAnswered401TokenFailed ==
    [][\A s \in DOMAIN req :
          (/\ Gated(req[s])
           /\ req[s].pc = "protect"
           /\ req'[s] # req[s]
           /\ BearerAndToken(req[s].auth)
           /\ FailsVerification(req[s].auth[2], now)) =>
              /\ req'[s].pc = "done"
              /\ req'[s].trace = <<"protect">>
              /\ req'[s].res = <<Res(401, "Not authorized, token failed", NoData)>>
              /\ req'[s].reads = 0
              /\ req'[s].user = Undefined]_vars

\* An issued token, expired by now, has been refused on a gated route
C4_Witness ==
    \E s \in DOMAIN req :
        /\ Gated(req[s])
        /\ req[s].pc = "done"
        /\ BearerAndToken(req[s].auth)
        /\ req[s].auth[2] \in Held(wallet)
        /\ req[s].res = <<Res(401, "Not authorized, token failed", NoData)>>
        /\ req[s].reads = 0

\* C5 (as amended): a token issued for a user at time t carries the expiry
\* t + 1 hour, verifies with that user's id as subject at every time from t
\* up to but not including the expiry, and fails verification at the expiry
\* and at every time after it.
C5_TokenValidStrictlyBeforeExpiry ==
    \A e \in wallet :
        LET payload == e.token.payload
            verdict == JwtVerify(e.token, Secret, now)
        IN  /\ payload.exp = payload.iat + ExpiresIn
            /\ payload.iat <= now
            /\ now < payload.exp => verdict.ok /\ verdict.decoded.id = e.userId
            /\ now >= payload.exp => ~verdict.ok

\* C5 as stated: the token verifies at every time up to and including its
\* expiry and fails at every time after it.
C5_TokenValidThroughExpiry ==
    \A e \in wallet :
        LET payload == e.token.payload
            verdict == JwtVerify(e.token, Secret, now)
        IN  /\ now <= payload.exp => verdict.ok /\ verdict.decoded.id = e.userId
            /\ now > payload.exp => ~verdict.ok

\* The clock stands at the expiry of a token a client holds
C5_Witness ==
    \E e \in wallet :
        /\ now = e.token.payload.exp
        /\ ~JwtVerify(e.token, Secret, now).ok

\* C6: in every reachable state, also after concurrent registrations that
\* carry the same e-mail, the store holds at most one user per e-mail.
C6_AtMostOneUserPerEmail ==
    \A i, j \in 1..Len(users) :
        users[i].email = users[j].email => i = j

\* A finished registration
Registration(r) ==
    /\ InFlightOrDone(r)
    /\ r.route = "POST /auth/register"
    /\ r.pc = "done"

\* Two registrations of one e-mail both passed the existence check; the
\* store took one and refused the other
C6_Witness ==
    \E s, t \in DOMAIN req :
        /\ Registration(req[s]) /\ Registration(req[t])
        /\ req[s].body.email = req[t].body.email
        /\ req[s].res[1].status = 201
        /\ req[t].res[1].status = 500
        /\ Cardinality({i \in 1..Len(users) : users[i].email = req[s].body.email}) = 1

\* The document registerUser hands to User.create
RegistrationDoc(b) ==
    [name |-> b.name, email |-> b.email, password |-> b.password,
     role |-> IF Missing(b.role) THEN "user" ELSE b.role]

\* C7: every registration rejected because its e-mail is already held by a
\* stored user is answered 409, whether the existence check or the unique
\* index found the duplicate, and never 500.
C7_DuplicateEmailAnswered409 ==
    \A s \in DOMAIN req :
        LET r == req[s]
        IN  (/\ Registration(r)
             /\ ~Missing(r.body.name)
             /\ ValidUser(RegistrationDoc(r.body))
             /\ r.res[1].status # 201
             /\ FindOneByEmail(users, r.body.email) # Null) =>
                r.res = <<Res(409, "User already exists", NoData)>>

\* A finished login that carried an e-mail and a password
Login2Fields(r) ==
    /\ InFlightOrDone(r)
    /\ r.route = "POST /auth/login"
    /\ r.pc = "done"
    /\ ~Missing(r.body.email)
    /\ ~Missing(r.body.password)

UnknownEmail(email) == \A i \in 1..Len(users) : users[i].email # email

WrongPassword(email, password) ==
    \E i \in 1..Len(users) : users[i].email = email /\ plain[i] # password

\* C8: in every store state, a login with an unknown e-mail and a login with
\* a registered e-mail and a wrong password get the same response: 401 with
\* the same message.
C8_LoginFailuresIndistinguishable ==
    \A s \in DOMAIN req :
        LET r == req[s]
        IN  (/\ Login2Fields(r)
             /\ \/ UnknownEmail(r.body.email)
                \/ WrongPassword(r.body.email, r.body.password)) =>
                r.res = <<Res(401, "Invalid credentials", NoData)>>

\* A login with a registered e-mail and a wrong password was refused
C8_Witness ==
    \E s \in DOMAIN req :
        /\ Login2Fields(req[s])
        /\ WrongPassword(req[s].body.email, req[s].body.password)
        /\ req[s].res[1].status = 401

\* C9: a login with a registered user's e-mail and the password that user
\* registered with is answered 200 with a token, signed by the server, whose
\* subject is that user's id; the login leaves users and products as they were.
C9_LoginIssuesTokenForUser ==
    [][\A s \in DOMAIN req :
          (/\ req[s].pc = "loginUser"
           /\ req'[s].pc = "done"
           /\ \E i \in 1..Len(users) :
                 users[i].email = req[s].body.email /\ plain[i] = req[s].body.password) =>
              LET i   == CHOOSE i \in 1..Len(users) : users[i].email = req[s].body.email
                  res == req'[s].res
              IN  /\ Len(res) = 1
                  /\ res[1].status = 200
                  /\ res[1].data.kind = "token"
                  /\ res[1].data.token.kind = "jwt"
                  /\ res[1].data.token.payload.id = users[i]._id
                  /\ res[1].data.token.sig = <<Secret, res[1].data.token.payload>>
                  /\ users' = users
                  /\ products' = products]_vars

\* A registered user has logged in
C9_Witness ==
    \E s \in DOMAIN req :
        /\ Login2Fields(req[s])
        /\ \E i \in 1..Len(users) :
              users[i].email = req[s].body.email /\ plain[i] = req[s].body.password
        /\ req[s].res[1].status = 200

\* C10: in every reachable state no stored user's password field equals the
\* plaintext submitted at that user's registration: what is stored is the
\* Password Hasher's output for it.
C10_StoredPasswordIsHash ==
    /\ Len(plain) = Len(users)
    /\ \A i \in 1..Len(users) :
          /\ users[i].password # plain[i]
          /\ \E salt \in Salts : users[i].password = BcryptHash(plain[i], salt)

\* A registration has stored a user
C10_Witness ==
    \E s \in DOMAIN req :
        /\ Registration(req[s])
        /\ req[s].res[1].status = 201
        /\ users[req[s].res[1].data.id].email = req[s].body.email

\* C11: GET /api/products is public: the route resolves to the list handler
\* with no gate in front of it, and a request with no Authorization header
\* is answered 200 with all stored products, in every store state.
C11_ListProductsIsPublic ==
    \A s \in DOMAIN req :
        LET r == req[s]
        IN  (/\ InFlightOrDone(r)
             /\ r.route = "GET /api/products"
             /\ r.auth = NoHeader) =>
                /\ r.chain = <<Stage("getAllProducts", {})>>
                /\ r.pc = "done" =>
                      /\ Len(r.res) = 1
                      /\ r.res[1].status = 200
                      /\ r.res[1].data = [kind |-> "products", products |-> products]

\* C12: every request produces exactly one response: whatever path it takes
\* through protect, authorize and the handler, a finished request has had
\* res.json called once, also for a Bearer header without a token part and
\* for a token that fails verification.
C12_ExactlyOneResponse ==
    \A s \in DOMAIN req :
        (InFlightOrDone(req[s]) /\ req[s].pc = "done") => Len(req[s].res) = 1

\* A finished request for which the createProduct body ran
Created(r) ==
    /\ Ran(r, "createProduct")
    /\ r.pc = "done"

\* C13: a POST /api/products request that passed both gates is answered 400
\* exactly when name or price is absent from the body; with a name and a
\* numeric price, whatever the number, the product is persisted and the
\* answer is 201 with the created record.
C13_CreateRejectsOnlyAbsentFields ==
    \A s \in DOMAIN req :
        LET r == req[s]
        IN  Created(r) =>
                /\ (r.res[1].status = 400) <=>
                       (Missing(r.body.name) \/ r.body.price = Undefined)
                /\ (~Missing(r.body.name) /\ r.body.price.kind = "number") =>
                       /\ r.res[1].status = 201
                       /\ \E p \in products : r.res[1].data = ProductView(p)

\* C14: every stored product's createdBy is the id of the identity protect
\* resolved for the request that created it (the subject of that request's
\* token), that user was in the store when the product was created, and no
\* later step changes the createdBy of a stored product.
C14_CreatedByIsTheCreator ==
    [][/\ \A s \in DOMAIN req :
             (req[s].pc = "createProduct" /\ products' # products) =>
                 \E p \in products' :
                     /\ p \notin products
                     /\ products' = products \cup {p}
                     /\ p.createdBy = req[s].user._id
                     /\ p.createdBy = req[s].auth[2].payload.id
                     /\ FindUserById(users, p.createdBy) # Null
                     /\ req[s].user = SelectNoPassword(FindUserById(users, p.createdBy))
       /\ \A p \in products : \A q \in products' :
             q._id = p._id => q.createdBy = p.createdBy]_vars

\* A product created by the manager is still stored, with the manager as
\* its creator, after another product was deleted
C14_Witness ==
    /\ nextPid = 3
    /\ Cardinality(products) = 1
    /\ \E p \in products :
          p.createdBy = 2 /\ users[p.createdBy].role = "manager"

\* Some stored product has this id
Stored(ps, id) == \E p \in ps : p._id = id

\* C15: a DELETE /api/products/:id request that passed both gates is
\* answered 404 with the store unchanged when no product has that id
\* (whatever the :id in the path);
\* otherwise the product is removed, the answer is 200 with the removed
\* record's fields and no other product is touched; an id that has gone
\* never comes back, so every later delete of it is answered 404.
C15_DeleteRemovesOnceThen404 ==
    [][/\ \A s \in DOMAIN req :
             (req[s].pc = "deleteProduct" /\ req'[s] # req[s]) =>
                 /\ products' = products
                 /\ IF Stored(products, req[s].params.id)
                    THEN /\ req'[s].pc = "deleteProduct:deleteOne"
                         /\ req'[s].res = <<>>
                    ELSE /\ req'[s].pc = "done"
                         /\ req'[s].res = <<Res(404, "Product not found", NoData)>>
       /\ \A s \in DOMAIN req :
             (req[s].pc = "deleteProduct:deleteOne" /\ req'[s] # req[s]) =>
                 \E p \in products :
                     /\ p._id = req[s].params.id
                     /\ products' = products \ {p}
                     /\ req'[s].pc = "done"
                     /\ req'[s].res = <<Res(200, "Product deleted successfully",
                                           ProductView(p))>>
       /\ \A i \in 1..(nextPid - 1) :
             ~Stored(products, i) => ~Stored(products', i)]_vars

\* C16: a registration in which name, email or password is missing or empty
\* (a body without the field, or no body at all) is answered 400 'Please add
\* all fields' at once, without a store read, and the store holds the same
\* users after it as before.
C16_RegisterMissingFieldAnswered400 ==
    [][\A s \in DOMAIN req :
          (/\ req[s].pc = "registerUser"
           /\ req'[s] # req[s]
           /\ \/ Missing(req[s].body.name)
              \/ Missing(req[s].body.email)
              \/ Missing(req[s].body.password)) =>
              /\ req'[s].pc = "done"
              /\ req'[s].res = <<Res(400, "Please add all fields", NoData)>>
              /\ req'[s].reads = 0
              /\ users' = users]_vars

\* The role registerUser stores for a body: role || 'user'
RoleAsked(b) == IF Missing(b.role) THEN "user" ELSE b.role

\* C17: every stored user's role is one of user, manager, admin; a
\* registration that gives no role stores role user, and one that gives a
\* role of the set, admin included, stores exactly that role, whoever sends
\* it: no header is looked at and no gate stands in front of registerUser.
C17_StoredRoleIsTheRoleAsked ==
    [][/\ \A i \in 1..Len(users') : users'[i].role \in Roles
       /\ \A s \in DOMAIN req :
             (/\ req[s].pc = "registerUser:create"
              /\ req'[s] # req[s]
              /\ RoleAsked(req[s].body) \in Roles
              /\ req[s].body.email \in WellFormedEmails
              /\ Len(req[s].body.password) >= MinLength
              /\ UnknownEmail(req[s].body.email)) =>
                 /\ req[s].chain = <<Stage("registerUser", {})>>
                 /\ Len(users') = Len(users) + 1
                 /\ users'[Len(users')].email = req[s].body.email
                 /\ users'[Len(users')].role = RoleAsked(req[s].body)
                 /\ req'[s].res[1].status = 201
                 /\ req'[s].res[1].data.role = RoleAsked(req[s].body)]_vars

\* A client that sent no credentials has registered itself as admin
C17_Witness ==
    \E s \in DOMAIN req :
        /\ Registration(req[s])
        /\ req[s].auth = NoHeader
        /\ req[s].body.role = "admin"
        /\ req[s].res[1].status = 201
        /\ users[req[s].res[1].data.id].role = "admin"

\* C18: within a request on a gated route the stages run in the order the
\* route declares: protect, then authorize where there is one, then the
\* handler. A stage starts only when every stage ahead of it has run and
\* called next(); past protect the request carries the identity protect
\* attached after its store read; a stage that answered ends the request.
C18_StagesRunInChainOrder ==
    \A s \in DOMAIN req :
        LET r == req[s]
        IN  Gated(r) =>
                /\ Len(r.trace) <= Len(r.chain)
                /\ \A i \in 1..Len(r.trace) : r.trace[i] = r.chain[i].fn
                /\ r.pc # "done" =>
                      /\ r.res = <<>>
                      /\ IF r.pc = "deleteProduct:deleteOne"
                         THEN Len(r.trace) = r.stage
                         ELSE Len(r.trace) = r.stage - 1 /\ r.pc = r.chain[r.stage].fn
                /\ r.stage = 1 => r.user = Undefined
                /\ r.stage >= 2 => r.user # Undefined /\ r.reads >= 1

\* The delete handler starts after protect and authorize('admin') have both
\* called next() for an admin
C18_Witness ==
    \E s \in DOMAIN req :
        /\ Gated(req[s])
        /\ req[s].pc = "deleteProduct"
        /\ req[s].trace = <<"protect", "authorize">>
        /\ req[s].user.role = "admin"

\* C19: saving a user whose password field has not been modified leaves the
\* stored password hash as it was, so the user can still log in with the
\* password registered: the pre-save step hashes only a password that was
\* set or changed.
C19_SaveKeepsUnmodifiedPassword ==
    \A i \in 1..Len(users) :
        /\ users[i].password = SeedUsers[i].password
        /\ matchPassword(users[i], plain[i])

\* The request carries a token that verifies now and whose subject is the
\* id of no stored user
OrphanToken(r) ==
    /\ BearerAndToken(r.auth)
    /\ JwtVerify(r.auth[2], Secret, now).ok
    /\ FindUserById(users, r.auth[2].payload.id) = Null

\* C20: when a token verifies but the store has no user with its subject
\* id, protect answers nothing: it sets req.user to null and calls next();
\* the stage that follows reads a property of the null identity, fails, and
\* the request ends with a single 500, not a 401 or a 403, the products
\* untouched.
C20_MissingUserEndsAs500 ==
    [][\A s \in DOMAIN req :
          /\ (/\ Gated(req[s])
              /\ req[s].pc = "protect"
              /\ req'[s] # req[s]
              /\ OrphanToken(req[s])) =>
                 /\ req'[s].user = Null
                 /\ req'[s].res = <<>>
                 /\ req'[s].trace = <<"protect">>
                 /\ req'[s].pc = req[s].chain[2].fn
          /\ (/\ Gated(req[s])
              /\ req[s].pc \notin {"protect", "done"}
              /\ req[s].user = Null
              /\ req'[s] # req[s]) =>
                 /\ req'[s].pc = "done"
                 /\ Len(req'[s].res) = 1
                 /\ req'[s].res[1].status = 500
                 /\ products' = products]_vars

\* A request with a held token of a removed user went past protect and
\* ended in authorize with a 500
C20_Witness ==
    \E s \in DOMAIN req :
        /\ Gated(req[s])
        /\ req[s].pc = "done"
        /\ req[s].auth[2] \in Held(wallet)
        /\ req[s].user = Null
        /\ req[s].trace = <<"protect", "authorize">>
        /\ req[s].res = <<Uncaught>>

\* A finished delete of this id, answered with this status
DeleteAnswered(r, id, status) ==
    /\ InFlightOrDone(r)
    /\ r.route = "DELETE /api/products/:id"
    /\ r.pc = "done"
    /\ r.params.id = id
    /\ r.res[1].status = status

\* C21: for every product id and every interleaving of concurrent DELETE
\* requests for it by admins, at most one request is answered 200 with the
\* deleted record; every other one is answered 404.
C21_AtMostOneDeleteAnswered200 ==
    \A id \in 1..MaxProducts :
        \A s, t \in DOMAIN req :
            (DeleteAnswered(req[s], id, 200) /\ DeleteAnswered(req[t], id, 200))
                => s = t

\* The token is one this server signed
IssuedHere(token) ==
    /\ token.kind = "jwt"
    /\ token.sig = <<Secret, token.payload>>

\* The token's subject is the id of a stored user
SubjectStored(us, token) == FindUserById(us, token.payload.id) # Null

\* C22: over register, login, product-create and product-delete, no step
\* removes or replaces a stored user; so every token a login issued, in a
\* response or kept by a client, has the id of a stored user as subject,
\* and when protect verifies such a token before its expiry it attaches
\* that user, never an empty identity.
C22_IssuedTokensNameStoredUsers ==
    [][/\ Len(users') >= Len(users)
       /\ SubSeq(users', 1, Len(users)) = users
       /\ \A e \in wallet' : IssuedHere(e.token) /\ SubjectStored(users', e.token)
       /\ \A s \in DOMAIN req :
             (/\ req[s].pc = "loginUser"
              /\ req'[s] # req[s]
              /\ req'[s].res[1].status = 200) =>
                 /\ IssuedHere(req'[s].res[1].data.token)
                 /\ SubjectStored(users', req'[s].res[1].data.token)
       /\ \A s \in DOMAIN req :
             (/\ req[s].pc = "protect"
              /\ req'[s] # req[s]
              /\ BearerAndToken(req[s].auth)
              /\ IssuedHere(req[s].auth[2])
              /\ now < req[s].auth[2].payload.exp) =>
                 /\ req'[s].user # Null
                 /\ req'[s].user = SelectNoPassword(users[req[s].auth[2].payload.id])
                 /\ req'[s].res = <<>>]_vars

\* With two users registered and a product created, protect has attached
\* the second user for the token that user's login issued
C22_Witness ==
    \E s \in DOMAIN req :
        /\ Gated(req[s])
        /\ req[s].stage >= 2
        /\ req[s].auth[2] \in Held(wallet)
        /\ Len(users) = 2
        /\ req[s].user = SelectNoPassword(users[2])
        /\ products # {}

=============================================================================
